---- MODULE Spec2Model ----
(***************************************************************************)
(* Model of config-ui/app.py: the Flask handlers index, setup and the      *)
(* before-first-request hook initial_setup, the cached docker client, and  *)
(* the two certificate transports run_certbot_via_curl and                 *)
(* run_certbot_via_http.  One request is handled at a time; pc is the      *)
(* position of the handler that is running.  Every call that can fail      *)
(* (docker SDK, curl, HTTP over the unix socket, file I/O) draws its       *)
(* outcome with \E.                                                        *)
(***************************************************************************)
EXTENDS Naturals, Sequences, FiniteSets, TLC

VARIABLES
    pc,             \* position of the request handler ("idle": no request)
    lock,           \* CONFIG_LOCK_FILE  [exists, text]
    final,          \* FINAL_CONF_PATH   [exists, text]
    defaultConf,    \* DEFAULT_CONF_PATH exists
    edge,           \* the biliroaming-proxy container: "started" / "stopped"
    docker_client,  \* the module global _docker_client
    gotFirst,       \* Flask has run the before_first_request functions
    domain,         \* setup's local `domain`
    bound,          \* setup's local `nginx_container` is bound
    cid,            \* the transport's local cid / container_id
    ctr,            \* the certbot container in the runtime
    exitStatus,     \* the status the certbot process exited with
    exit_code,      \* setup's local `exit_code`: <<>> while unassigned
    raising,        \* run_certbot_via_http is unwinding through its finally
    flashed,        \* category of the message flashed by the run
    response,       \* what the last handled request answered
    trace,          \* calls issued by the current POST /setup run, in order
    start0,         \* the files as they were when the run began
    lastGet,        \* the get_docker_client call made by the step just taken
    firstMade,      \* the first client make_docker_client returned
    failedOnce,     \* some get_docker_client call has returned None
    committed,      \* the domain of the run whose marker write succeeded
    cpc,            \* two concurrent POST /setup requests: position of each
    cbound,         \* ... each one's local `nginx_container` is bound
    cctr,           \* ... each one's certbot container
    cflash,         \* ... the category each one flashed
    startedDuringCert  \* a start call started the edge while a certbot ran

vars == <<pc, lock, final, defaultConf, edge, docker_client, gotFirst, domain,
          bound, cid, ctr, exitStatus, exit_code, raising, flashed, response,
          trace, start0, lastGet, firstMade, failedOnce, committed,
          cpc, cbound, cctr, cflash, startedDuringCert>>

\* The state of the two concurrent requests.
concVars == <<cpc, cbound, cctr, cflash, startedDuringCert>>

\* The state only the one-request-at-a-time handlers use.
seqVars == <<pc, docker_client, gotFirst, domain, bound, cid, ctr, exitStatus,
             exit_code, raising, flashed, response, trace, start0, lastGet,
             firstMade, failedOnce, committed>>

\* The two concurrent requests, and the domain each submits.
Procs == {1, 2}

\* Python's None; also the text an f-string renders for a cid that is None.
None == "None"

\* The id the runtime gives the certbot container it creates.
Cid1 == "c1"

\* request.form['domain'] as submitted: texts over the characters a, b, blank.
RawDomains == { <<"a">>, <<" ", "b", " ">>, <<>> }

\* Exit statuses of the certbot process.
ExitCodes == {0, 1}

\* The final.conf template: characters, "$" standing for ${SERVER_NAME}.
Template == <<"s", "$", ";", "$">>

NoFile == [exists |-> FALSE, text |-> <<>>]
File(t) == [exists |-> TRUE, text |-> t]

RECURSIVE LStrip(_)
LStrip(s) == IF s # <<>> /\ Head(s) = " " THEN LStrip(Tail(s)) ELSE s

RECURSIVE RStrip(_)
RStrip(s) ==
    IF s # <<>> /\ s[Len(s)] = " " THEN RStrip(SubSeq(s, 1, Len(s) - 1)) ELSE s

\* str.strip()
Strip(s) == RStrip(LStrip(s))

RECURSIVE Replace(_, _)
\* template.replace('${SERVER_NAME}', domain)
Replace(t, d) ==
    IF t = <<>> THEN <<>>
    ELSE (IF Head(t) = "$" THEN d ELSE <<Head(t)>>) \o Replace(Tail(t), d)

Render(d) == Replace(Template, d)

is_configured_WrongPath == defaultConf

\* os.path.exists(CONFIG_LOCK_FILE)
is_configured == lock.exists

make_docker_client_EnvFirst(sockExists, unixOk, envRes, unix2Ok) ==
    IF envRes = "ok" THEN "env"
    ELSE IF sockExists /\ unixOk THEN "unix"
    ELSE IF envRes = "docker_exc" /\ unix2Ok THEN "unix2"
    ELSE "raise"

\* make_docker_client: unix socket if present, then from_env, then unix again.
make_docker_client(sockExists, unixOk, envRes, unix2Ok) ==
    IF sockExists /\ unixOk THEN "unix"
    ELSE IF envRes = "ok" THEN "env"
    ELSE IF envRes = "docker_exc" /\ unix2Ok THEN "unix2"
    ELSE "raise"

get_docker_client_NoCache(cache, made) ==
    IF made = "raise" THEN None ELSE made

get_docker_client_NoExcept(cache, made) ==
    IF cache # None THEN cache ELSE made

\* get_docker_client: the value _docker_client holds (and is returned) after it.
get_docker_client(cache, made) ==
    IF cache # None THEN cache
    ELSE IF made = "raise" THEN None
    ELSE made

EnvRes == {"ok", "docker_exc", "other_exc"}

\* One construction of a client: which one, and how it ended.
Attempt(c, res) == [c |-> c, ok |-> (res = "ok"), res |-> res]

\* make_docker_client, lines 32-51: the constructions it attempts, in order,
\* each with its outcome.
constructions(sockExists, unixOk, envRes, unix2Ok) ==
    (IF sockExists THEN <<Attempt("unix", IF unixOk THEN "ok" ELSE "other_exc")>>
     ELSE <<>>)
    \o (IF sockExists /\ unixOk THEN <<>>
        ELSE <<Attempt("env", envRes)>>
             \o (IF envRes = "docker_exc"
                 THEN <<Attempt("unix2", IF unix2Ok THEN "ok" ELSE "other_exc")>>
                 ELSE <<>>))

\* No get_docker_client call.
NoCall == [called |-> FALSE, before |-> None, afterFailure |-> FALSE,
           sock |-> FALSE, attempts |-> <<>>, made |-> "skipped",
           returned |-> None]

\* One get_docker_client call, lines 63-73: the cache before it, what
\* make_docker_client attempted and returned if it ran, what the call returned.
Call(cache, failed, sockExists, unixOk, envRes, unix2Ok) ==
    [called |-> TRUE, before |-> cache, afterFailure |-> failed,
     sock |-> sockExists,
     attempts |-> IF cache # None THEN <<>>
                  ELSE constructions(sockExists, unixOk, envRes, unix2Ok),
     made |-> IF cache # None THEN "skipped"
              ELSE make_docker_client(sockExists, unixOk, envRes, unix2Ok),
     returned |-> get_docker_client(cache,
                      make_docker_client(sockExists, unixOk, envRes, unix2Ok))]

\* A response: the page answered and, on the status page, the domain it shows.
Page(r, p, d) == [req |-> r, page |-> p, domain |-> d]

Ev(op, via, id, ok) == [op |-> op, via |-> via, cid |-> id, ok |-> ok]

\* The texts setup can hold in `domain`.
Domains == { Strip(raw) : raw \in RawDomains }

\* Both concurrent requests are at position p0, nothing done yet.
ConcAt(p0) ==
    /\ cpc = [p \in Procs |-> p0]
    /\ cbound = [p \in Procs |-> FALSE]
    /\ cctr = [p \in Procs |-> "absent"]
    /\ cflash = [p \in Procs |-> "none"]
    /\ startedDuringCert = FALSE

\* A process starts on a fresh config directory, with or without default.conf,
\* or on one that an earlier process provisioned.
Init ==
    /\ ConcAt("idle")
    /\ pc = "idle"
    /\ \/ lock = NoFile /\ final = NoFile /\ defaultConf \in BOOLEAN
       \/ \E d \in Domains :
            lock = File(d) /\ final = File(Render(d)) /\ defaultConf = FALSE
    /\ edge = "started"
    /\ docker_client = None
    /\ gotFirst = FALSE
    /\ domain = <<>>
    /\ bound = FALSE
    /\ cid = None
    /\ ctr = "absent"
    /\ exitStatus = 0
    /\ exit_code = <<>>
    /\ raising = FALSE
    /\ flashed = "none"
    /\ response = Page("none", "none", <<>>)
    /\ trace = <<>>
    /\ start0 = [lock |-> NoFile, final |-> NoFile, defaultConf |-> FALSE]
    /\ lastGet = NoCall
    /\ firstMade = None
    /\ failedOnce = FALSE
    /\ committed = <<>>

runVars == <<domain, bound, cid, ctr, exitStatus, exit_code, raising, flashed,
             trace, start0>>

\* The step calls get_docker_client: the cache and the record of the call.
GetClient(sockExists, unixOk, envRes, unix2Ok) ==
    /\ lastGet' = Call(docker_client, failedOnce, sockExists, unixOk, envRes, unix2Ok)
    /\ docker_client' = lastGet'.returned
    /\ firstMade' = IF firstMade = None /\ lastGet'.made \notin {"skipped", "raise"}
                    THEN lastGet'.made ELSE firstMade
    /\ failedOnce' = (failedOnce \/ lastGet'.returned = None)

\* The step makes no get_docker_client call.
NoGet == lastGet' = NoCall /\ UNCHANGED <<docker_client, firstMade, failedOnce>>

\* What a step that is neither a get_docker_client call nor the marker write
\* leaves alone.
Aside ==
    /\ lastGet' = NoCall
    /\ UNCHANGED <<firstMade, failedOnce, committed>>
    /\ UNCHANGED concVars

\* initial_setup, run by Flask before the first request is dispatched.  The
\* exec_run("nginx -s reload") at line 212 neither stops nor starts the edge
\* container, and what it raises is logged and dropped.
initial_setup ==
    /\ pc = "idle"
    /\ ~gotFirst
    /\ gotFirst' = TRUE
    /\ IF ~is_configured /\ ~defaultConf
       THEN \E res \in {"template_fail", "write_fail", "ok"},
               sockExists \in BOOLEAN, unixOk \in BOOLEAN,
               envRes \in EnvRes, unix2Ok \in BOOLEAN :
               /\ defaultConf' = (res # "template_fail")
               /\ IF res = "ok"
                  THEN GetClient(sockExists, unixOk, envRes, unix2Ok)
                  ELSE NoGet
       ELSE UNCHANGED defaultConf /\ NoGet
    /\ UNCHANGED <<pc, lock, final, edge, response, committed>>
    /\ UNCHANGED concVars
    /\ UNCHANGED runVars

\* GET /
index ==
    /\ pc = "idle"
    /\ gotFirst
    /\ response' = IF ~is_configured
                   THEN Page("GET /", "redirect_setup", <<>>)
                   ELSE Page("GET /", "configured", lock.text)
    /\ UNCHANGED <<pc, lock, final, defaultConf, edge, docker_client, gotFirst>>
    /\ UNCHANGED runVars
    /\ Aside

\* GET /setup
setup_get ==
    /\ pc = "idle"
    /\ gotFirst
    /\ response' = IF is_configured
                   THEN Page("GET /setup", "redirect_index", <<>>)
                   ELSE Page("GET /setup", "form", <<>>)
    /\ UNCHANGED <<pc, lock, final, defaultConf, edge, docker_client, gotFirst>>
    /\ UNCHANGED runVars
    /\ Aside

Log(e) == trace' = Append(trace, e)

\* POST /setup, lines 229-242: the guard, the form, the docker client.
setup_post ==
    /\ pc = "idle"
    /\ gotFirst
    /\ IF is_configured
       THEN /\ response' = Page("POST /setup", "redirect_index", <<>>)
            /\ UNCHANGED pc
            /\ NoGet
            /\ UNCHANGED runVars
       ELSE \E raw \in RawDomains, sockExists \in BOOLEAN, unixOk \in BOOLEAN,
               envRes \in EnvRes, unix2Ok \in BOOLEAN :
               /\ domain' = Strip(raw)
               /\ GetClient(sockExists, unixOk, envRes, unix2Ok)
               /\ bound' = FALSE
               /\ cid' = None
               /\ ctr' = "absent"
               /\ exitStatus' = 0
               /\ exit_code' = <<>>
               /\ raising' = FALSE
               /\ trace' = <<>>
               /\ start0' = [lock |-> lock, final |-> final,
                             defaultConf |-> defaultConf]
               /\ flashed' = IF docker_client' = None THEN "error" ELSE "none"
               /\ pc' = IF docker_client' = None THEN "done" ELSE "get_container"
               /\ UNCHANGED response
    /\ UNCHANGED <<lock, final, defaultConf, edge, gotFirst, committed>>
    /\ UNCHANGED concVars

\* line 246: client.containers.get(NGINX_CONTAINER_NAME)
GetContainer ==
    /\ pc = "get_container"
    /\ \E ok \in BOOLEAN :
         /\ bound' = ok
         /\ pc' = IF ok THEN "stop" ELSE "except"
    /\ UNCHANGED <<lock, final, defaultConf, edge, docker_client, gotFirst,
                   domain, cid, ctr, exitStatus, exit_code, raising, flashed,
                   response, trace, start0>>
    /\ Aside

Stop_IgnoresFailure ==
    /\ pc = "stop"
    /\ \E ok \in BOOLEAN :
         /\ Log(Ev("edge_stop", "sdk", None, ok))
         /\ edge' \in (IF ok THEN {"stopped"} ELSE {edge, "stopped"})
         /\ pc' = "curl_pull"
    /\ UNCHANGED <<lock, final, defaultConf, docker_client, gotFirst, domain,
                   bound, cid, ctr, exitStatus, exit_code, raising, flashed,
                   response, start0>>
    /\ Aside

\* lines 247-249: nginx_container.stop()
Stop ==
    /\ pc = "stop"
    /\ \E ok \in BOOLEAN :
         /\ Log(Ev("edge_stop", "sdk", None, ok))
         /\ IF ok
            THEN edge' = "stopped" /\ pc' = "curl_pull"
            ELSE edge' \in {edge, "stopped"} /\ pc' = "except"
    /\ UNCHANGED <<lock, final, defaultConf, docker_client, gotFirst, domain,
                   bound, cid, ctr, exitStatus, exit_code, raising, flashed,
                   response, start0>>
    /\ Aside

certVars == <<lock, final, defaultConf, edge, docker_client, gotFirst, domain,
              bound, flashed, response, start0>>

\* run_certbot_via_curl, lines 161-168: the socket check and the pull, whose
\* result os.system discards.
CurlPull ==
    /\ pc = "curl_pull"
    /\ \E sockExists \in BOOLEAN, ok \in BOOLEAN :
         IF ~sockExists
         THEN /\ Log(Ev("raise", "curl", None, FALSE))
              /\ pc' = "http_pull"
         ELSE /\ Log(Ev("pull", "curl", None, ok))
              /\ pc' = "curl_create"
    /\ UNCHANGED <<cid, ctr, exitStatus, exit_code, raising>>
    /\ UNCHANGED certVars
    /\ Aside

\* lines 180-184: create.  curl exits 0 on an HTTP error status, so a create
\* the runtime rejected yields a JSON body without Id and cid is None.
CurlCreate ==
    /\ pc = "curl_create"
    /\ \E res \in {"curl_failed", "not_json", "rejected", "created"} :
         /\ trace' = IF res \in {"curl_failed", "not_json"}
                     THEN trace \o <<Ev("create", "curl", None, FALSE),
                                     Ev("raise", "curl", None, FALSE)>>
                     ELSE Append(trace, Ev("create", "curl", None, res = "created"))
         /\ cid' = IF res = "created" THEN Cid1 ELSE None
         /\ ctr' = IF res = "created" THEN "created" ELSE ctr
         /\ pc' = IF res \in {"curl_failed", "not_json"} THEN "http_pull"
                  ELSE "curl_start"
    /\ UNCHANGED <<exitStatus, exit_code, raising>>
    /\ UNCHANGED certVars
    /\ Aside

\* line 186: start; the result of subprocess.run is discarded.
CurlStart ==
    /\ pc = "curl_start"
    /\ \E ok \in BOOLEAN :
         /\ (cid = None) => ~ok
         /\ Log(Ev("start", "curl", cid, ok))
         /\ ctr' = IF ok THEN "running" ELSE ctr
    /\ pc' = "curl_wait"
    /\ UNCHANGED <<cid, exitStatus, exit_code, raising>>
    /\ UNCHANGED certVars
    /\ Aside

\* The certbot process exits, with some status.
CertbotExit ==
    /\ ctr = "running"
    /\ ctr' = "exited"
    /\ exitStatus' \in ExitCodes
    /\ UNCHANGED <<pc, cid, exit_code, raising, trace>>
    /\ UNCHANGED certVars
    /\ Aside

\* line 188: wait; curl has no time limit and returns when the runtime
\* answers, which it does at once unless the container is running.
CurlWait ==
    /\ pc = "curl_wait"
    /\ ctr # "running"
    /\ Log(Ev("wait", "curl", cid, ctr = "exited"))
    /\ pc' = "curl_logs"
    /\ UNCHANGED <<cid, ctr, exitStatus, exit_code, raising>>
    /\ UNCHANGED certVars
    /\ Aside

\* lines 190-191: logs
CurlLogs ==
    /\ pc = "curl_logs"
    /\ \E ok \in BOOLEAN :
         /\ (cid = None) => ~ok
         /\ Log(Ev("logs", "curl", cid, ok))
    /\ pc' = "curl_remove"
    /\ UNCHANGED <<cid, ctr, exitStatus, exit_code, raising>>
    /\ UNCHANGED certVars
    /\ Aside

\* line 194: the exit code run_certbot_via_curl returns
curl_exit_code(status) == 0

CurlRemove_ThenHttp ==
    /\ pc = "curl_remove"
    /\ \E ok \in BOOLEAN :
         /\ (cid = None) => ~ok
         /\ trace' = trace \o <<Ev("remove", "curl", cid, ok),
                                Ev("return", "curl", None, TRUE)>>
         /\ ctr' = IF ok THEN "removed" ELSE ctr
    /\ exit_code' = <<0>>
    /\ pc' = "http_pull"
    /\ UNCHANGED <<cid, exitStatus, raising>>
    /\ UNCHANGED certVars
    /\ Aside

\* lines 193-194: remove, then return 0, logs
CurlRemove ==
    /\ pc = "curl_remove"
    /\ \E ok \in BOOLEAN :
         /\ (cid = None) => ~ok
         /\ trace' = trace \o <<Ev("remove", "curl", cid, ok),
                                Ev("return", "curl", None, TRUE)>>
         /\ ctr' = IF ok THEN "removed" ELSE ctr
    /\ exit_code' = <<curl_exit_code(exitStatus)>>
    /\ pc' = "read_template"
    /\ UNCHANGED <<cid, exitStatus, raising>>
    /\ UNCHANGED certVars
    /\ Aside

\* run_certbot_via_http, lines 101-111: the session and the pull.
HttpPull ==
    /\ pc = "http_pull"
    /\ \E res \in {"no_session", "rejected", "pulled"} :
         /\ trace' = IF res = "no_session"
                     THEN trace \o <<Ev("enter", "http", None, FALSE),
                                     Ev("raise", "http", None, FALSE)>>
                     ELSE IF res = "rejected"
                     THEN trace \o <<Ev("enter", "http", None, TRUE),
                                     Ev("pull", "http", None, FALSE),
                                     Ev("raise", "http", None, FALSE)>>
                     ELSE trace \o <<Ev("enter", "http", None, TRUE),
                                     Ev("pull", "http", None, TRUE)>>
         /\ pc' = IF res = "pulled" THEN "http_create" ELSE "except"
    /\ UNCHANGED <<cid, ctr, exitStatus, exit_code, raising>>
    /\ UNCHANGED certVars
    /\ Aside

\* lines 113-129: create; a status other than 200/201 raises before the try,
\* and a 201 carries the Id of the container.
HttpCreate ==
    /\ pc = "http_create"
    /\ \E res \in {"rejected", "created"} :
         /\ trace' = IF res = "rejected"
                     THEN trace \o <<Ev("create", "http", None, FALSE),
                                     Ev("raise", "http", None, FALSE)>>
                     ELSE Append(trace, Ev("create", "http", None, res = "created"))
         /\ cid' = IF res = "created" THEN Cid1 ELSE None
         /\ ctr' = IF res = "created" THEN "created" ELSE ctr
         /\ pc' = IF res = "rejected" THEN "except" ELSE "http_start"
    /\ UNCHANGED <<exitStatus, exit_code, raising>>
    /\ UNCHANGED certVars
    /\ Aside

\* lines 132-136: start; a status other than 204/200 raises into the finally.
HttpStart ==
    /\ pc = "http_start"
    /\ \E ok \in BOOLEAN :
         /\ (cid = None) => ~ok
         /\ Log(Ev("start", "http", cid, ok))
         /\ ctr' = IF ok THEN "running" ELSE ctr
         /\ raising' = ~ok
         /\ pc' = IF ok THEN "http_wait" ELSE "http_remove"
    /\ UNCHANGED <<cid, exitStatus, exit_code>>
    /\ UNCHANGED certVars
    /\ Aside

\* line 143: exit_code = r.json().get('StatusCode', 1)
http_exit_code(status) == status

\* lines 138-143: wait, with timeout=timeout.  While the container runs the
\* request can only end by the timeout, which raises.
HttpWait ==
    /\ pc = "http_wait"
    /\ IF ctr = "running"
       THEN /\ Log(Ev("wait", "http", cid, FALSE))
            /\ raising' = TRUE
            /\ pc' = "http_remove"
            /\ UNCHANGED exit_code
       ELSE \E ok \in BOOLEAN :
            /\ Log(Ev("wait", "http", cid, ok))
            /\ raising' = ~ok
            /\ exit_code' = IF ok THEN <<http_exit_code(exitStatus)>> ELSE exit_code
            /\ pc' = IF ok THEN "http_logs" ELSE "http_remove"
    /\ UNCHANGED <<cid, ctr, exitStatus>>
    /\ UNCHANGED certVars
    /\ Aside

\* lines 145-149: logs
HttpLogs ==
    /\ pc = "http_logs"
    /\ \E ok \in BOOLEAN :
         /\ Log(Ev("logs", "http", cid, ok))
         /\ raising' = ~ok
    /\ pc' = "http_remove"
    /\ UNCHANGED <<cid, ctr, exitStatus, exit_code>>
    /\ UNCHANGED certVars
    /\ Aside

HttpRemove_Propagates ==
    /\ pc = "http_remove"
    /\ \E ok \in BOOLEAN :
         /\ (cid = None) => ~ok
         /\ trace' = trace \o <<Ev("remove", "http", cid, ok),
                                Ev(IF raising \/ ~ok THEN "raise" ELSE "return",
                                   "http", None, ~raising /\ ok)>>
         /\ ctr' = IF ok THEN "removed" ELSE ctr
         /\ pc' = IF raising \/ ~ok THEN "except" ELSE "read_template"
    /\ raising' = FALSE
    /\ UNCHANGED <<cid, exitStatus, exit_code>>
    /\ UNCHANGED certVars
    /\ Aside

\* lines 150-156: the finally; the DELETE is issued whatever cid is, and what
\* it raises is swallowed.
HttpRemove ==
    /\ pc = "http_remove"
    /\ \E ok \in BOOLEAN :
         /\ (cid = None) => ~ok
         /\ trace' = trace \o <<Ev("remove", "http", cid, ok),
                                Ev(IF raising THEN "raise" ELSE "return",
                                   "http", None, ~raising)>>
         /\ ctr' = IF ok THEN "removed" ELSE ctr
    /\ pc' = IF raising THEN "except" ELSE "read_template"
    /\ raising' = FALSE
    /\ UNCHANGED <<cid, exitStatus, exit_code>>
    /\ UNCHANGED certVars
    /\ Aside

fileVars == <<edge, docker_client, gotFirst, domain, bound, cid, ctr,
              exitStatus, exit_code, raising, flashed, response>>

ReadTemplate_TruncatesFinal ==
    /\ pc = "read_template"
    /\ \E ok \in BOOLEAN :
         /\ Log(Ev("read_template", "fs", None, ok))
         /\ final' = IF ok THEN final ELSE File(<<>>)
         /\ pc' = IF ok THEN "write_final" ELSE "except"
    /\ UNCHANGED <<lock, defaultConf, start0>>
    /\ UNCHANGED fileVars
    /\ Aside

\* lines 266-267: read the template
ReadTemplate ==
    /\ pc = "read_template"
    /\ \E ok \in BOOLEAN :
         /\ Log(Ev("read_template", "fs", None, ok))
         /\ pc' = IF ok THEN "write_final" ELSE "except"
    /\ UNCHANGED <<lock, final, defaultConf, start0>>
    /\ UNCHANGED fileVars
    /\ Aside

\* lines 268-270: render and write final.conf.  open(..., 'w') may fail, and
\* leaves the file as it was; the write may fail after open truncated it.
WriteFinal ==
    /\ pc = "write_final"
    /\ \E res \in {"open_failed", "write_failed", "written"} :
         /\ Log(Ev("write_final", "fs", None, res = "written"))
         /\ final' = IF res = "open_failed" THEN final
                     ELSE IF res = "write_failed" THEN File(<<>>)
                     ELSE File(Render(domain))
         /\ pc' = IF res = "written" THEN "remove_default" ELSE "except"
    /\ UNCHANGED <<lock, defaultConf, start0>>
    /\ UNCHANGED fileVars
    /\ Aside

\* lines 273-274: delete default.conf if it exists
RemoveDefault ==
    /\ pc = "remove_default"
    /\ IF defaultConf
       THEN \E ok \in BOOLEAN :
            /\ Log(Ev("remove_default", "fs", None, ok))
            /\ defaultConf' = ~ok
            /\ pc' = IF ok THEN "write_lock" ELSE "except"
       ELSE /\ pc' = "write_lock"
            /\ UNCHANGED <<trace, defaultConf>>
    /\ UNCHANGED <<lock, final, start0>>
    /\ UNCHANGED fileVars
    /\ Aside

WriteLock_WritesConfig ==
    /\ pc = "write_lock"
    /\ \E res \in {"open_failed", "write_failed", "written"} :
         /\ Log(Ev("write_lock", "fs", None, res = "written"))
         /\ lock' = IF res = "open_failed" THEN lock
                    ELSE IF res = "write_failed" THEN File(<<>>)
                    ELSE File(Render(domain))
         /\ committed' = IF res = "written" THEN <<domain>> ELSE committed
         /\ pc' = IF res = "written" THEN "start_edge" ELSE "except"
    /\ UNCHANGED <<final, defaultConf, start0>>
    /\ UNCHANGED fileVars
    /\ lastGet' = NoCall /\ UNCHANGED <<firstMade, failedOnce>>
    /\ UNCHANGED concVars

\* lines 275-276: write the domain to .lock; the same two ways to fail.
WriteLock ==
    /\ pc = "write_lock"
    /\ \E res \in {"open_failed", "write_failed", "written"} :
         /\ Log(Ev("write_lock", "fs", None, res = "written"))
         /\ lock' = IF res = "open_failed" THEN lock
                    ELSE IF res = "write_failed" THEN File(<<>>)
                    ELSE File(domain)
         /\ committed' = IF res = "written" THEN <<domain>> ELSE committed
         /\ pc' = IF res = "written" THEN "start_edge" ELSE "except"
    /\ UNCHANGED <<final, defaultConf, start0>>
    /\ UNCHANGED fileVars
    /\ lastGet' = NoCall /\ UNCHANGED <<firstMade, failedOnce>>
    /\ UNCHANGED concVars

edgeVars == <<lock, final, defaultConf, docker_client, gotFirst, domain, bound,
              cid, ctr, exitStatus, exit_code, raising, response, start0>>

StartEdge_NoReturn ==
    /\ pc = "start_edge"
    /\ \E ok \in BOOLEAN :
         /\ Log(Ev("edge_start", "sdk", None, ok))
         /\ edge' = IF ok THEN "started" ELSE edge
         /\ flashed' = IF ok THEN "success" ELSE flashed
         /\ pc' = "except"
    /\ UNCHANGED edgeVars
    /\ Aside

\* lines 279-284: start the edge container, flash success
StartEdge ==
    /\ pc = "start_edge"
    /\ \E ok \in BOOLEAN :
         /\ Log(Ev("edge_start", "sdk", None, ok))
         /\ edge' = IF ok THEN "started" ELSE edge
         /\ flashed' = IF ok THEN "success" ELSE flashed
         /\ pc' = IF ok THEN "done" ELSE "except"
    /\ UNCHANGED edgeVars
    /\ Aside

Except_NoRestart ==
    /\ pc = "except"
    /\ flashed' = "error"
    /\ pc' = "done"
    /\ UNCHANGED <<edge, trace>>
    /\ UNCHANGED edgeVars
    /\ Aside

\* lines 292-297: flash the error, start the edge container and swallow what
\* that raises; with nginx_container unbound the NameError is what is swallowed.
Except ==
    /\ pc = "except"
    /\ flashed' = "error"
    /\ IF bound
       THEN \E ok \in BOOLEAN :
            /\ Log(Ev("edge_start", "sdk", None, ok))
            /\ edge' = IF ok THEN "started" ELSE edge
       ELSE UNCHANGED <<edge, trace>>
    /\ pc' = "done"
    /\ UNCHANGED edgeVars
    /\ Aside

\* lines 284, 299, 242: the redirect the handler returns; its locals are gone.
Return ==
    /\ pc = "done"
    /\ pc' = "idle"
    /\ response' = IF flashed = "success"
                   THEN Page("POST /setup", "redirect_index", <<>>)
                   ELSE Page("POST /setup", "redirect_setup", <<>>)
    /\ domain' = <<>>
    /\ bound' = FALSE
    /\ cid' = None
    /\ ctr' = "absent"
    /\ exitStatus' = 0
    /\ exit_code' = <<>>
    /\ trace' = <<>>
    /\ start0' = [lock |-> NoFile, final |-> NoFile, defaultConf |-> FALSE]
    /\ UNCHANGED <<lock, final, defaultConf, edge, docker_client, gotFirst,
                   raising, flashed>>
    /\ Aside

\* The steps of the POST /setup run in flight.
RunStep ==
    \/ GetContainer \/ Stop
    \/ CurlPull \/ CurlCreate \/ CurlStart \/ CurlWait \/ CurlLogs \/ CurlRemove
    \/ HttpPull \/ HttpCreate \/ HttpStart \/ HttpWait \/ HttpLogs \/ HttpRemove
    \/ ReadTemplate \/ WriteFinal \/ RemoveDefault \/ WriteLock \/ StartEdge
    \/ Except \/ Return

Next ==
    \/ initial_setup \/ index \/ setup_get \/ setup_post
    \/ RunStep
    \/ CertbotExit

Spec == Init /\ [][Next]_vars

\* The handler's thread keeps running: a step of the run that can be taken is
\* taken.  Nothing obliges the certbot process to exit.
FairSpec == Spec /\ WF_vars(RunStep)

(***************************************************************************)
(* Two POST /setup requests handled at the same time (a threaded server),  *)
(* both past the is_configured() guard of line 230 with the marker absent  *)
(* and both holding the docker client.  Each runs setup's try block with   *)
(* its own locals; the files and the edge container are shared.  The       *)
(* certificate run of a request is the curl transport creating and         *)
(* starting its container, waiting for it and removing it, or a raise      *)
(* before any container runs.                                              *)
(***************************************************************************)

\* request.form['domain'].strip() of request p
ReqDomain(p) == IF p = 1 THEN <<"a">> ELSE <<"b">>

ConcInit ==
    /\ ConcAt("get_container")
    /\ pc = "idle"
    /\ lock = NoFile /\ final = NoFile /\ defaultConf \in BOOLEAN
    /\ edge = "started"
    /\ docker_client = "unix"
    /\ gotFirst = TRUE
    /\ domain = <<>>
    /\ bound = FALSE
    /\ cid = None
    /\ ctr = "absent"
    /\ exitStatus = 0
    /\ exit_code = <<>>
    /\ raising = FALSE
    /\ flashed = "none"
    /\ response = Page("none", "none", <<>>)
    /\ trace = <<>>
    /\ start0 = [lock |-> NoFile, final |-> NoFile, defaultConf |-> FALSE]
    /\ lastGet = NoCall
    /\ firstMade = "unix"
    /\ failedOnce = FALSE
    /\ committed = <<>>

\* Request p moves to position q.
Goto(p, q) == cpc' = [cpc EXCEPT ![p] = q]

\* line 246
CGetContainer(p) ==
    /\ cpc[p] = "get_container"
    /\ \E ok \in BOOLEAN :
         /\ cbound' = [cbound EXCEPT ![p] = ok]
         /\ Goto(p, IF ok THEN "stop" ELSE "except")
    /\ UNCHANGED <<lock, final, defaultConf, edge, cctr, cflash, startedDuringCert>>
    /\ UNCHANGED seqVars

\* lines 247-249
CStop(p) ==
    /\ cpc[p] = "stop"
    /\ \E ok \in BOOLEAN :
         IF ok
         THEN edge' = "stopped" /\ Goto(p, "cert_begin")
         ELSE edge' \in {edge, "stopped"} /\ Goto(p, "except")
    /\ UNCHANGED <<lock, final, defaultConf, cbound, cctr, cflash, startedDuringCert>>
    /\ UNCHANGED seqVars

\* lines 253-263 with 161-186: the run raises before a container runs, or
\* the curl transport has created its container and asked for its start.
CCertBegin(p) ==
    /\ cpc[p] = "cert_begin"
    /\ \E res \in {"raise", "created", "running"} :
         /\ cctr' = [cctr EXCEPT ![p] = IF res = "raise" THEN @ ELSE res]
         /\ Goto(p, IF res = "raise" THEN "except" ELSE "cert_wait")
    /\ UNCHANGED <<lock, final, defaultConf, edge, cbound, cflash, startedDuringCert>>
    /\ UNCHANGED seqVars

\* The certbot process of request p exits.
CCertbotExit(p) ==
    /\ cctr[p] = "running"
    /\ cctr' = [cctr EXCEPT ![p] = "exited"]
    /\ UNCHANGED <<cpc, lock, final, defaultConf, edge, cbound, cflash, startedDuringCert>>
    /\ UNCHANGED seqVars

\* lines 188-194: the wait returns once the container is not running; logs,
\* remove, return.
CCertEnd(p) ==
    /\ cpc[p] = "cert_wait"
    /\ cctr[p] # "running"
    /\ \E ok \in BOOLEAN :
         cctr' = [cctr EXCEPT ![p] = IF ok THEN "removed" ELSE @]
    /\ Goto(p, "write_final")
    /\ UNCHANGED <<lock, final, defaultConf, edge, cbound, cflash, startedDuringCert>>
    /\ UNCHANGED seqVars

\* lines 266-270
CWriteFinal(p) ==
    /\ cpc[p] = "write_final"
    /\ \E res \in {"read_failed", "open_failed", "write_failed", "written"} :
         /\ final' = IF res \in {"read_failed", "open_failed"} THEN final
                     ELSE IF res = "write_failed" THEN File(<<>>)
                     ELSE File(Render(ReqDomain(p)))
         /\ Goto(p, IF res = "written" THEN "remove_default" ELSE "except")
    /\ UNCHANGED <<lock, defaultConf, edge, cbound, cctr, cflash, startedDuringCert>>
    /\ UNCHANGED seqVars

\* lines 273-274
CRemoveDefault(p) ==
    /\ cpc[p] = "remove_default"
    /\ IF defaultConf
       THEN \E ok \in BOOLEAN :
            /\ defaultConf' = ~ok
            /\ Goto(p, IF ok THEN "write_lock" ELSE "except")
       ELSE Goto(p, "write_lock") /\ UNCHANGED defaultConf
    /\ UNCHANGED <<lock, final, edge, cbound, cctr, cflash, startedDuringCert>>
    /\ UNCHANGED seqVars

\* lines 275-276
CWriteLock(p) ==
    /\ cpc[p] = "write_lock"
    /\ \E res \in {"open_failed", "write_failed", "written"} :
         /\ lock' = IF res = "open_failed" THEN lock
                    ELSE IF res = "write_failed" THEN File(<<>>)
                    ELSE File(ReqDomain(p))
         /\ Goto(p, IF res = "written" THEN "start_edge" ELSE "except")
    /\ UNCHANGED <<final, defaultConf, edge, cbound, cctr, cflash, startedDuringCert>>
    /\ UNCHANGED seqVars

\* A start call of a request on the edge container, with outcome ok.
CEdgeStart(ok) ==
    /\ edge' = IF ok THEN "started" ELSE edge
    /\ startedDuringCert' =
          (startedDuringCert \/ (ok /\ \E q \in Procs : cctr[q] = "running"))

\* lines 279-284
CStartEdge(p) ==
    /\ cpc[p] = "start_edge"
    /\ \E ok \in BOOLEAN :
         /\ CEdgeStart(ok)
         /\ cflash' = [cflash EXCEPT ![p] = IF ok THEN "success" ELSE @]
         /\ Goto(p, IF ok THEN "returned" ELSE "except")
    /\ UNCHANGED <<lock, final, defaultConf, cbound, cctr>>
    /\ UNCHANGED seqVars

\* lines 292-299
CExcept(p) ==
    /\ cpc[p] = "except"
    /\ cflash' = [cflash EXCEPT ![p] = "error"]
    /\ IF cbound[p]
       THEN \E ok \in BOOLEAN : CEdgeStart(ok)
       ELSE UNCHANGED <<edge, startedDuringCert>>
    /\ Goto(p, "returned")
    /\ UNCHANGED <<lock, final, defaultConf, cbound, cctr>>
    /\ UNCHANGED seqVars

ConcNext ==
    \E p \in Procs :
        \/ CGetContainer(p) \/ CStop(p) \/ CCertBegin(p) \/ CCertbotExit(p)
        \/ CCertEnd(p) \/ CWriteFinal(p) \/ CRemoveDefault(p) \/ CWriteLock(p)
        \/ CStartEdge(p) \/ CExcept(p)

ConcSpec == ConcInit /\ [][ConcNext]_vars

(***************************************************************************)
(* Properties.                                                             *)
(***************************************************************************)

Idx == 1 .. Len(trace)

\* How many calls of `op` the run has issued.
Count(op) == Cardinality({ i \in Idx : trace[i].op = op })

\* The run issued a call of `op` whose outcome was `ok`.
Did(op, ok) == \E i \in Idx : trace[i].op = op /\ trace[i].ok = ok

StopIssued == Count("edge_stop") > 0

\* The last start call the run issued on the edge container succeeded.
LastStartOk ==
    \E i \in Idx :
        /\ trace[i].op = "edge_start"
        /\ trace[i].ok
        /\ \A j \in Idx : (j > i) => trace[j].op # "edge_start"

C2_StartsMatchStops ==
    (pc = "done" /\ ~Did("edge_start", FALSE)) =>
        /\ Count("edge_start") = Count("edge_stop")
        /\ Count("edge_stop") <= 1
        /\ \A i \in Idx, j \in Idx :
              (trace[i].op = "edge_stop" /\ trace[j].op = "edge_start") => i < j

\* A run whose final.conf write failed: one stop, then one start.
C2_Witness ==
    /\ pc = "done"
    /\ Did("write_final", FALSE)
    /\ Count("edge_stop") = 1
    /\ Count("edge_start") = 1

\* The certbot process of the run exited with a non-zero status.
CertbotFailed == ctr \in {"exited", "removed"} /\ exitStatus # 0

\* C3 as stated: a run whose certbot container exited non-zero ends Failed:
\* final.conf not written, no marker, an error reported, the edge restarted.
C3_NonZeroExitFails ==
    (pc = "done" /\ CertbotFailed) =>
        /\ flashed = "error"
        /\ ~Did("write_final", TRUE)
        /\ ~lock.exists
        /\ Count("edge_start") > 0

\* C4 as stated: whenever the marker exists, final.conf exists and holds the
\* template rendered for the domain the marker stores.
C4_MarkerImpliesFinal ==
    lock.exists => (final.exists /\ final.text = Render(lock.text))

\* C5: a request that arrives when the marker exists (GET /, GET /setup,
\* POST /setup, the before-first-request hook) leaves .lock, final.conf and
\* default.conf as they are, issues no call on the edge container or on the
\* container runtime, and starts no run.
C5_ConfiguredNoOp ==
    [][(pc = "idle" /\ lock.exists) =>
          /\ lock' = lock /\ final' = final /\ defaultConf' = defaultConf
          /\ edge' = edge /\ trace' = trace /\ ctr' = ctr
          /\ pc' = "idle"]_vars

\* POST /setup was answered while the marker existed.
C5_Witness ==
    /\ pc = "idle"
    /\ lock.exists
    /\ response.req = "POST /setup"
    /\ response.page = "redirect_index"
    /\ flashed # "success"

Transports == {"curl", "http"}

\* Calls of `op` the run issued through transport v.
Via(v, op) == { i \in Idx : trace[i].via = v /\ trace[i].op = op }

\* C6 as stated: when the run is over, each transport that created a
\* container has issued exactly one Remove, for that container's id, and a
\* transport whose Create failed has issued none.
C6_OneRemovePerCreate ==
    (pc = "done") =>
        \A v \in Transports :
            IF \E i \in Via(v, "create") : trace[i].ok
            THEN /\ Cardinality(Via(v, "remove")) = 1
                 /\ \A i \in Via(v, "remove") : trace[i].cid = Cid1
            ELSE Via(v, "remove") = {}

\* Position of a step in pull, create, start, wait, logs, remove.
Rank(op) ==
    CASE op = "pull" -> 1 [] op = "create" -> 2 [] op = "start" -> 3
      [] op = "wait" -> 4 [] op = "logs" -> 5 [] op = "remove" -> 6
      [] OTHER -> 0

\* C7 as stated: within one transport the steps are issued in the order pull,
\* create, start, wait, logs, remove, and a rejected pull, create or start is
\* followed by no later pull/create/start/wait step of that transport.
C7_FailureAbortsLaterSteps ==
    \A i \in Idx, j \in Idx :
        (/\ i < j
         /\ trace[i].via \in Transports /\ trace[j].via = trace[i].via
         /\ Rank(trace[i].op) > 0 /\ Rank(trace[j].op) > 0) =>
            /\ Rank(trace[i].op) < Rank(trace[j].op)
            /\ (~trace[i].ok /\ Rank(trace[i].op) <= 3) => Rank(trace[j].op) > 4

\* C8 as stated: a run ends Committed (success reported, the marker holds the
\* submitted domain) or Failed (an error reported, the marker absent).
C8_CommittedOrFailed ==
    (pc = "done") =>
        \/ flashed = "success" /\ lock = File(domain)
        \/ flashed = "error" /\ ~lock.exists

\* C9 as stated: a run that has issued the stop call reaches its return.
C9_RunTerminates == (pc \notin {"idle", "done"} /\ StopIssued) ~> (pc = "done")

C11_CacheSetOnce ==
    [][/\ docker_client' = firstMade'
       /\ (docker_client # None) =>
             /\ docker_client' = docker_client
             /\ lastGet'.called =>
                   /\ lastGet'.attempts = <<>>
                   /\ lastGet'.returned = docker_client]_vars

\* A get_docker_client call answered from the cache.
C11_Witness ==
    /\ lastGet.called
    /\ lastGet.before # None
    /\ lastGet.returned = lastGet.before
    /\ pc = "get_container"

\* The step is a POST /setup that got past the is_configured() guard.
PostStep == pc = "idle" /\ lastGet'.called /\ pc' # "idle"

\* The run ends at once: an error, no call issued, files and edge untouched.
FailsAtOnce ==
    /\ pc' = "done" /\ flashed' = "error" /\ trace' = <<>> /\ ctr' = "absent"
    /\ lock' = lock /\ final' = final /\ defaultConf' = defaultConf
    /\ edge' = edge

\* C12 as stated: a POST /setup whose client constructions all fail ends at
\* once, and a get_docker_client call that follows a failed one fails again
\* without attempting a construction.
C12_FailsWithoutReprobe ==
    [][/\ (PostStep /\ lastGet'.made = "raise") => FailsAtOnce
       /\ (lastGet'.called /\ lastGet'.afterFailure) =>
             (lastGet'.returned = None /\ lastGet'.attempts = <<>>)]_vars

\* C12, amended: a POST /setup whose client constructions all fail ends at
\* once; a failure is not cached, so every get_docker_client call made while
\* the cache is empty runs the constructions again, and fails exactly when
\* they all fail again.
C12_FailsAtOnceAndReprobes ==
    [][/\ (PostStep /\ lastGet'.made = "raise") => FailsAtOnce
       /\ (lastGet'.called /\ lastGet'.before = None) =>
             /\ lastGet'.attempts # <<>>
             /\ (lastGet'.returned = None) <=>
                   (\A i \in 1 .. Len(lastGet'.attempts) : ~lastGet'.attempts[i].ok)]_vars

\* A POST /setup that failed for want of a client, after an earlier failure.
C12_Witness ==
    /\ pc = "done"
    /\ lastGet.called
    /\ lastGet.afterFailure
    /\ lastGet.made = "raise"
    /\ Len(lastGet.attempts) = 3
    /\ flashed = "error"

\* C13: from the marker write of a run on, the marker exists and holds the
\* domain of that run, and every GET / answers the status page with it.
C13_CommitThenRead ==
    [][(committed' # <<>>) =>
          /\ lock'.exists
          /\ lock'.text = committed'[1]
          /\ (response' # response /\ response'.req = "GET /") =>
                response' = Page("GET /", "configured", committed'[1])]_vars

\* GET / after a run that committed the domain submitted as " b ".
C13_Witness ==
    /\ committed = << <<"b">> >>
    /\ response = Page("GET /", "configured", <<"b">>)

C15_RemoveFailureSwallowed ==
    /\ \A i \in Idx :
          (trace[i].op = "remove") =>
              /\ i < Len(trace)
              /\ trace[i + 1].via = trace[i].via
              /\ trace[i + 1].op =
                    IF /\ trace[i].via = "http"
                       /\ \E j \in 1 .. i - 1 :
                             /\ trace[j].via = "http"
                             /\ trace[j].op \in {"start", "wait", "logs"}
                             /\ ~trace[j].ok
                    THEN "raise" ELSE "return"
    /\ (\E i \in Idx : trace[i].op = "return") => exit_code # <<>>

\* The HTTP transport's Remove of a real container failed and the run
\* still succeeded.
C15_Witness ==
    /\ pc = "done"
    /\ flashed = "success"
    /\ \E i \in Idx :
          /\ trace[i].op = "remove" /\ trace[i].via = "http"
          /\ trace[i].cid = Cid1 /\ ~trace[i].ok

CertPcs == {"curl_pull", "curl_create", "curl_start", "curl_wait", "curl_logs",
            "curl_remove", "http_pull", "http_create", "http_start",
            "http_wait", "http_logs", "http_remove"}

\* C16: in a run, every create and start of a certbot container comes after
\* a stop call that succeeded and while the edge container is stopped, and a
\* start call on the edge container comes after every call of the
\* certificate run, each transport used having returned or raised.
C16_CertOnlyWhileStopped ==
    /\ (pc \in CertPcs) => edge = "stopped"
    /\ \A i \in Idx :
          (trace[i].op \in {"create", "start"}) =>
              \E j \in 1 .. i - 1 : trace[j].op = "edge_stop" /\ trace[j].ok
    /\ \A i \in Idx :
          (trace[i].op = "edge_start") =>
              \A j \in Idx :
                  (Rank(trace[j].op) > 0) =>
                      /\ j < i
                      /\ \E k \in j + 1 .. i - 1 :
                            /\ trace[k].via = trace[j].via
                            /\ trace[k].op \in {"return", "raise"}

\* A run that started a certbot container and then restarted the edge.
C16_Witness ==
    /\ pc = "done"
    /\ Did("start", TRUE)
    /\ Did("edge_start", TRUE)
    /\ edge = "started"

\* The run failed.
RunFailed == pc = "done" /\ flashed = "error"

\* C18 as stated: after a failed run the three files are as they were when
\* the run began.
C18_FailedRunRestoresFiles ==
    RunFailed =>
        /\ lock = start0.lock
        /\ final = start0.final
        /\ defaultConf = start0.defaultConf

\* C18, amended: a failed run rolls nothing back.  It leaves all three files
\* as they were only if it failed before the final.conf write; otherwise
\* final.conf is what that write left; default.conf is gone exactly when the
\* run deleted it; the marker is as it was unless the run reached the marker
\* write.
C18_FailedRunKeepsWhatItWrote ==
    RunFailed =>
        /\ (Count("write_final") = 0) =>
              /\ lock = start0.lock
              /\ final = start0.final
              /\ defaultConf = start0.defaultConf
        /\ Did("write_final", TRUE) => final = File(Render(domain))
        /\ defaultConf = (start0.defaultConf /\ ~Did("remove_default", TRUE))
        /\ (Count("write_lock") = 0) => lock = start0.lock

\* A run that failed at the marker write: final.conf left behind without a
\* marker, default.conf deleted.
C18_Witness ==
    /\ RunFailed
    /\ Did("write_lock", FALSE)
    /\ ~lock.exists
    /\ final = File(Render(domain))
    /\ final # start0.final
    /\ start0.defaultConf /\ ~defaultConf

\* C17 as stated, in the case most favourable to it, where neither request
\* took its except branch: for two interleaved POST /setup requests that both
\* passed the guard and both returned with the success flash, the edge container is
\* started, final.conf is the rendering of the marker's domain, and no start
\* call started the edge container while a certbot container of either
\* request was running.
C17_ConcurrentRunsAgree ==
    (\A p \in Procs : cpc[p] = "returned" /\ cflash[p] = "success") =>
        /\ edge = "started"
        /\ lock.exists /\ final.exists /\ final.text = Render(lock.text)
        /\ ~startedDuringCert
====
